---- MODULE Spec2Model ----
(***************************************************************************)
(* Agent Dispatch Gateway of JuliaOS (a2a/): the agent registry            *)
(* (agents/registry.py), the Add2Executor execution bridge                 *)
(* (agents/executors.py), the capability card builder (agents/card.py)     *)
(* and the gateway composition (server.py).                                *)
(*                                                                         *)
(* Two specifications:                                                     *)
(*   Spec         the gateway process: import of server.py (registration,  *)
(*                route construction), then requests served on the single  *)
(*                event loop of uvicorn.run.                               *)
(*   RegistrySpec the registry used as a library: any sequence of          *)
(*                register_agent / get_executor calls, and execute/cancel  *)
(*                on the bridges get_executor returned.                    *)
(***************************************************************************)
EXTENDS Integers, Sequences, FiniteSets, TLC

\* ---------------------------------------------------------------- bounds
MaxReqs == 2

MaxRegs == 2

MaxResolves == 1

MaxRecs == 1

MaxCancels == 1

MaxCardIds == 3

\* ------------------------------------------------------------- constants
None == "None"

NoReq == 0

PORT == 9100

Add2Agent == "add2-agent"

Ids == {"add2-agent", "other-agent"}

Factories == {"Add2Executor", "OtherExecutor"}

Reqs == 1..MaxReqs

\* The raw user inputs (context.get_user_input()), as character sequences.
Inputs ==
  { <<"5">>, <<"a", "b", "c">>, <<" ", "-", "1", "2">> }

VARIABLES
  AGENT_IDS,       \* server.py: the configured list of identifiers
  AGENT_REGISTRY,  \* registry.py: identifier -> executor class (None: no entry)
  regLog,          \* history: the register_agent calls, in order
  pc,              \* position of the importing of server.py, or "lib"
  routes,          \* server.py: the list of Mount entries
  bridges,         \* the executor instances constructed so far
  req,             \* per request: position in execute and its locals
  sink,            \* per request: the events enqueued on its EventQueue
  running,         \* the request whose coroutine holds the event loop
  logs             \* backend: per agent, the ordered log records

vars == << AGENT_IDS, AGENT_REGISTRY, regLog, pc, routes, bridges, req, sink,
           running, logs >>

\* ------------------------------------------------------------ registry.py
\* Truth value of a registry lookup result (a class is truthy, None is not).
Truthy(executor_cls) == executor_cls # None

register_agent_keepfirst(registry, agent_id, executor_cls) ==
  IF registry[agent_id] = None
  THEN [registry EXCEPT ![agent_id] = executor_cls]
  ELSE registry

register_agent(registry, agent_id, executor_cls) ==
  [registry EXCEPT ![agent_id] = executor_cls]

get_executor_default(registry, agent_id) ==
  [raised |-> None,
   cls |-> IF Truthy(registry[agent_id]) THEN registry[agent_id]
           ELSE "Add2Executor"]

\* The outcome of get_executor: the exception raised, or the class whose
\* fresh instance is returned.
get_executor(registry, agent_id) ==
  LET executor_cls == registry[agent_id] IN
    IF ~Truthy(executor_cls)
    THEN [raised |-> "ValueError", cls |-> None]
    ELSE [raised |-> None, cls |-> executor_cls]

\* agents/__init__.py
register_all_agents(registry) ==
  register_agent(registry, Add2Agent, "Add2Executor")

\* ---------------------------------------------------------------- card.py
skill_map_nofallback(agent_id) ==
  IF agent_id = "add2-agent" THEN <<"Add Two", "Adds +2 to input">>
  ELSE <<"", "">>

skill_map(agent_id) ==
  IF agent_id = "add2-agent" THEN <<"Add Two", "Adds +2 to input">>
  ELSE <<"Unknown", "Unknown">>

make_agent_card_norpc(agent_id, port) ==
  LET name == skill_map(agent_id)[1]
      desc == skill_map(agent_id)[2]
  IN [name |-> agent_id \o " agent",
      version |-> "1.0",
      description |-> desc,
      url |-> "http://127.0.0.1:" \o ToString(port) \o "/a2a/" \o agent_id,
      streaming |-> FALSE,
      skills |-> << [id |-> agent_id, name |-> name, description |-> desc] >>]

make_agent_card(agent_id, port) ==
  LET name == skill_map(agent_id)[1]
      desc == skill_map(agent_id)[2]
  IN [name |-> agent_id \o " agent",
      version |-> "1.0",
      description |-> desc,
      url |-> "http://127.0.0.1:" \o ToString(port) \o "/" \o agent_id \o "/a2a",
      streaming |-> FALSE,
      skills |-> << [id |-> agent_id, name |-> name, description |-> desc] >>]

\* ------------------------------------------------- executors.py: int(...)
\* Python's int(str): surrounding whitespace is stripped, one optional sign,
\* then decimal digits, single underscores allowed between two digits.
IsSpace(c) == c \in {" "}

IsDigit(c) == c \in {"0", "1", "2", "3", "4", "5", "6", "7", "8", "9"}

DigitVal(c) ==
  CASE c = "0" -> 0 [] c = "1" -> 1 [] c = "2" -> 2 [] c = "3" -> 3
    [] c = "4" -> 4 [] c = "5" -> 5 [] c = "6" -> 6 [] c = "7" -> 7
    [] c = "8" -> 8 [] c = "9" -> 9

RECURSIVE lstrip(_)
lstrip(s) ==
  IF s # << >> /\ IsSpace(Head(s)) THEN lstrip(Tail(s)) ELSE s

RECURSIVE rstrip(_)
rstrip(s) ==
  IF s # << >> /\ IsSpace(s[Len(s)]) THEN rstrip(SubSeq(s, 1, Len(s) - 1))
  ELSE s

strip(s) == rstrip(lstrip(s))

ValidDigits(b) ==
  /\ Len(b) > 0
  /\ \A k \in 1..Len(b) :
       \/ IsDigit(b[k])
       \/ /\ b[k] = "_"
          /\ k > 1
          /\ k < Len(b)
          /\ IsDigit(b[k - 1])
          /\ IsDigit(b[k + 1])

RECURSIVE DigitsValue(_, _)
DigitsValue(b, acc) ==
  IF b = << >> THEN acc
  ELSE IF Head(b) = "_" THEN DigitsValue(Tail(b), acc)
  ELSE DigitsValue(Tail(b), 10 * acc + DigitVal(Head(b)))

\* int(s): ok = FALSE stands for the ValueError it raises.
int(s) ==
  LET t == strip(s)
      signed == t # << >> /\ t[1] \in {"+", "-"}
      body == IF signed THEN Tail(t) ELSE t
  IN IF ~ValidDigits(body) THEN [ok |-> FALSE, v |-> 0]
     ELSE [ok |-> TRUE,
           v |-> IF signed /\ t[1] = "-" THEN 0 - DigitsValue(body, 0)
                 ELSE DigitsValue(body, 0)]

\* ------------------------------------------------------------------ state
\* A request: its position in execute, the locals of execute, the exception
\* that escaped, and (history) the backend calls it made, in order.
NewReq ==
  [pc |-> "none", id |-> None, bridge |-> 0, input |-> << >>, val |-> << >>,
   fetched |-> << >>, result |-> << >>, exc |-> None, cancelExc |-> None,
   calls |-> << >>]

InitCommon ==
  /\ AGENT_REGISTRY = [a \in Ids |-> None]
  /\ regLog = << >>
  /\ routes = << >>
  /\ bridges = << >>
  /\ req = [r \in Reqs |-> NewReq]
  /\ sink = [r \in Reqs |-> << >>]
  /\ running = NoReq
  /\ logs = [a \in Ids |-> << >>]

\* The configured lists considered: empty, single, repeated, mixed.
ConfigLists ==
  { << >>, <<"add2-agent">>, <<"other-agent">>,
    <<"add2-agent", "add2-agent">>, <<"add2-agent", "other-agent">>,
    <<"other-agent", "add2-agent">> }

Init ==
  /\ InitCommon
  /\ AGENT_IDS \in ConfigLists
  /\ pc = "register"

InitRegistry ==
  /\ InitCommon
  /\ AGENT_IDS = << >>
  /\ pc = "lib"

\* ---------------------------------------------------------------- server.py
\* Line 16: register_all_agents().
RegisterAll ==
  /\ pc = "register"
  /\ AGENT_REGISTRY' = register_all_agents(AGENT_REGISTRY)
  /\ regLog' = Append(regLog, [id |-> Add2Agent, cls |-> "Add2Executor"])
  /\ pc' = "loop"
  /\ UNCHANGED << AGENT_IDS, routes, bridges, req, sink, running, logs >>

\* Lines 19-29, one iteration of the loop for AGENT_IDS[Len(routes) + 1]:
\* get_executor, make_agent_card, build, routes.append(Mount(...)).
MountNext ==
  /\ pc = "loop"
  /\ Len(routes) < Len(AGENT_IDS)
  /\ LET agent_id == AGENT_IDS[Len(routes) + 1]
         got == get_executor(AGENT_REGISTRY, agent_id)
     IN /\ got.raised = None
        /\ bridges' = Append(bridges, [cls |-> got.cls, resolvedAs |-> agent_id])
        /\ routes' = Append(routes,
             [prefix |-> "/" \o agent_id,
              rpc_url |-> "/a2a",
              agent_id |-> agent_id,
              executor |-> Len(bridges) + 1,
              card |-> make_agent_card(agent_id, PORT)])
  /\ UNCHANGED << AGENT_IDS, AGENT_REGISTRY, regLog, pc, req, sink, running,
                  logs >>

\* Line 21 raising: the import of server.py fails, nothing is served.
StartupFail ==
  /\ pc = "loop"
  /\ Len(routes) < Len(AGENT_IDS)
  /\ get_executor(AGENT_REGISTRY, AGENT_IDS[Len(routes) + 1]).raised # None
  /\ pc' = "failed"
  /\ UNCHANGED << AGENT_IDS, AGENT_REGISTRY, regLog, routes, bridges, req,
                  sink, running, logs >>

Serve_reregister ==
  /\ pc = "loop"
  /\ Len(routes) = Len(AGENT_IDS)
  /\ pc' = "serving"
  /\ AGENT_REGISTRY' = register_all_agents(AGENT_REGISTRY)
  /\ regLog' = Append(regLog, [id |-> Add2Agent, cls |-> "Add2Executor"])
  /\ UNCHANGED << AGENT_IDS, routes, bridges, req, sink, running, logs >>

\* Lines 31-35: the loop is over, the application is built and served.
Serve ==
  /\ pc = "loop"
  /\ Len(routes) = Len(AGENT_IDS)
  /\ pc' = "serving"
  /\ UNCHANGED << AGENT_IDS, AGENT_REGISTRY, regLog, routes, bridges, req,
                  sink, running, logs >>

\* -------------------------------------------------------------- requests
\* Requests are taken in order of their number (they are interchangeable).
IsNextReq(r) ==
  /\ req[r].pc = "none"
  /\ \A q \in Reqs : q < r => req[q].pc # "none"

\* server.py lines 20-23 bind the route's handler to one executor: a request
\* routed to mount k runs on that executor; its task waits on the event loop.
Dispatch(r, k, input) ==
  /\ pc = "serving"
  /\ IsNextReq(r)
  /\ k \in 1..Len(routes)
  /\ req' = [req EXCEPT ![r] = [NewReq EXCEPT !.pc = "queued",
                                             !.id = routes[k].agent_id,
                                             !.bridge = routes[k].executor,
                                             !.input = input]]
  /\ UNCHANGED << AGENT_IDS, AGENT_REGISTRY, regLog, pc, routes, bridges, sink,
                  running, logs >>

\* registry.py line 7, called by a user of the registry.
Register(agent_id, executor_cls) ==
  /\ pc = "lib"
  /\ running = NoReq
  /\ Len(regLog) < MaxRegs
  /\ AGENT_REGISTRY' = register_agent(AGENT_REGISTRY, agent_id, executor_cls)
  /\ regLog' = Append(regLog, [id |-> agent_id, cls |-> executor_cls])
  /\ UNCHANGED << AGENT_IDS, pc, routes, bridges, req, sink, running, logs >>

\* registry.py lines 9-13, called by a user of the registry for request r.
Resolve(r, agent_id, input) ==
  /\ pc = "lib"
  /\ running = NoReq
  /\ IsNextReq(r)
  /\ r <= MaxResolves
  /\ LET got == get_executor(AGENT_REGISTRY, agent_id) IN
       IF got.raised # None
       THEN /\ req' = [req EXCEPT ![r] = [NewReq EXCEPT !.pc = "unresolved",
                                                        !.id = agent_id,
                                                        !.input = input,
                                                        !.exc = got.raised]]
            /\ UNCHANGED bridges
       ELSE /\ bridges' = Append(bridges,
                                 [cls |-> got.cls, resolvedAs |-> agent_id])
            /\ req' = [req EXCEPT ![r] =
                 [NewReq EXCEPT !.pc = IF got.cls = "Add2Executor"
                                       THEN "queued" ELSE "resolved",
                                !.id = agent_id,
                                !.bridge = Len(bridges) + 1,
                                !.input = input]]
  /\ UNCHANGED << AGENT_IDS, AGENT_REGISTRY, regLog, pc, routes, sink, running,
                  logs >>

\* ------------------------------------------- executors.py: Add2Executor
\* A coroutine runs when the event loop is free or already its own.
CanRun(r) == running \in {NoReq, r}

LoopAfterSync_yield(r) == NoReq

\* Lines 12-15 are synchronous calls with no await between them: the
\* coroutine keeps the event loop across them.
LoopAfterSync(r) == r

\* Line 12: the key of the backend agent the bridge loads.
LoadKey(bridge) == "add2-agent"

BackendCall(op, agent, payload) ==
  [op |-> op, agent |-> agent, payload |-> payload]

\* Backend: the invoke made by request r with value v yields n output
\* records, appended in order to the agent's log.
BackendInvoke(log, r, v, n) ==
  log \o [j \in 1..n |-> [by |-> r, value |-> v, k |-> j]]

Raised_retry(rq, exc) == [rq EXCEPT !.pc = "queued", !.exc = exc]

\* An exception leaves execute: the coroutine ends, nothing is enqueued.
Raised(rq, exc) == [rq EXCEPT !.pc = "raised", !.exc = exc]

\* Line 12: jl_agent = juliaos.Agent.load(conn, "add2-agent").
ExecLoad(r, ok) ==
  /\ req[r].pc = "queued"
  /\ bridges[req[r].bridge].cls = "Add2Executor"
  /\ CanRun(r)
  /\ LET called == [req[r] EXCEPT !.calls = Append(@,
                      BackendCall("load", LoadKey(bridges[req[r].bridge]), << >>))]
     IN IF ok
        THEN /\ req' = [req EXCEPT ![r] = [called EXCEPT !.pc = "loaded"]]
             /\ running' = LoopAfterSync(r)
        ELSE /\ req' = [req EXCEPT ![r] = Raised(called, "BackendError")]
             /\ running' = NoReq
  /\ UNCHANGED << AGENT_IDS, AGENT_REGISTRY, regLog, pc, routes, bridges, sink,
                  logs >>

\* Line 13: val = int(context.get_user_input()).
ExecParse(r) ==
  /\ req[r].pc = "loaded"
  /\ CanRun(r)
  /\ LET p == int(req[r].input) IN
       IF p.ok
       THEN /\ req' = [req EXCEPT ![r].pc = "parsed", ![r].val = << p.v >>]
            /\ running' = LoopAfterSync(r)
       ELSE /\ req' = [req EXCEPT ![r] = Raised(req[r], "ValueError")]
            /\ running' = NoReq
  /\ UNCHANGED << AGENT_IDS, AGENT_REGISTRY, regLog, pc, routes, bridges, sink,
                  logs >>

\* Line 14: jl_agent.call_webhook({"value": val}).
ExecInvoke(r, ok, n) ==
  /\ req[r].pc = "parsed"
  /\ CanRun(r)
  /\ LET agent == LoadKey(bridges[req[r].bridge])
         called == [req[r] EXCEPT !.calls = Append(@,
                      BackendCall("call_webhook", agent, req[r].val))]
     IN IF ok
        THEN /\ logs' = [logs EXCEPT ![agent] =
                           BackendInvoke(logs[agent], r, req[r].val[1], n)]
             /\ req' = [req EXCEPT ![r] = [called EXCEPT !.pc = "invoked"]]
             /\ running' = LoopAfterSync(r)
        ELSE /\ req' = [req EXCEPT ![r] = Raised(called, "BackendError")]
             /\ running' = NoReq
             /\ UNCHANGED logs
  /\ UNCHANGED << AGENT_IDS, AGENT_REGISTRY, regLog, pc, routes, bridges, sink >>

\* Line 14, the backend never answering: call_webhook is a synchronous call
\* made with no timeout, so the coroutine stays in it and keeps the event loop.
ExecInvokeBlocks(r) ==
  /\ req[r].pc = "parsed"
  /\ CanRun(r)
  /\ req' = [req EXCEPT ![r].pc = "blocked",
                        ![r].calls = Append(@,
                           BackendCall("call_webhook",
                                       LoadKey(bridges[req[r].bridge]),
                                       req[r].val))]
  /\ running' = r
  /\ UNCHANGED << AGENT_IDS, AGENT_REGISTRY, regLog, pc, routes, bridges, sink,
                  logs >>

LastLog_first(fetched) == fetched[1]

\* Line 15: the subscript [-1].
LastLog(fetched) == fetched[Len(fetched)]

\* Line 15: result = jl_agent.get_logs()["logs"][-1].
ExecFetch(r, ok) ==
  /\ req[r].pc = "invoked"
  /\ CanRun(r)
  /\ LET agent == LoadKey(bridges[req[r].bridge])
         called == [req[r] EXCEPT !.calls = Append(@,
                      BackendCall("get_logs", agent, << >>))]
     IN IF ~ok
        THEN /\ req' = [req EXCEPT ![r] = Raised(called, "BackendError")]
             /\ running' = NoReq
        ELSE IF logs[agent] = << >>
        THEN /\ req' = [req EXCEPT ![r] = Raised(called, "IndexError")]
             /\ running' = NoReq
        ELSE /\ req' = [req EXCEPT ![r] =
                  [called EXCEPT !.pc = "fetched",
                                 !.fetched = logs[agent],
                                 !.result = << LastLog(logs[agent]) >>]]
             /\ running' = LoopAfterSync(r)
  /\ UNCHANGED << AGENT_IDS, AGENT_REGISTRY, regLog, pc, routes, bridges, sink,
                  logs >>

new_agent_text_message(text) ==
  [kind |-> "message", role |-> "agent", text |-> text]

\* Line 16: await event_queue.enqueue_event(new_agent_text_message(result));
\* execute returns and the event loop is free again.
ExecEnqueue(r) ==
  /\ req[r].pc = "fetched"
  /\ CanRun(r)
  /\ sink' = [sink EXCEPT ![r] =
                Append(sink[r], new_agent_text_message(req[r].result[1]))]
  /\ req' = [req EXCEPT ![r].pc = "done"]
  /\ running' = NoReq
  /\ UNCHANGED << AGENT_IDS, AGENT_REGISTRY, regLog, pc, routes, bridges, logs >>

Cancelled == { r \in Reqs : req[r].cancelExc # None }

\* Lines 19-24: cancel raises Exception("cancel not supported").
Cancel(r) ==
  /\ req[r].pc \notin {"none", "unresolved", "resolved"}
  /\ bridges[req[r].bridge].cls = "Add2Executor"
  /\ req[r].cancelExc = None
  /\ Cardinality(Cancelled) < MaxCancels
  /\ running = NoReq
  /\ req' = [req EXCEPT ![r].cancelExc = "Exception"]
  /\ UNCHANGED << AGENT_IDS, AGENT_REGISTRY, regLog, pc, routes, bridges, sink,
                  running, logs >>

Execute(r) ==
  \/ \E ok \in BOOLEAN : ExecLoad(r, ok)
  \/ ExecParse(r)
  \/ \E ok \in BOOLEAN, n \in 1..MaxRecs : ExecInvoke(r, ok, n)
  \/ ExecInvokeBlocks(r)
  \/ \E ok \in BOOLEAN : ExecFetch(r, ok)
  \/ ExecEnqueue(r)

Next ==
  \/ RegisterAll
  \/ MountNext
  \/ StartupFail
  \/ Serve
  \/ \E r \in Reqs, k \in 1..Len(routes), input \in Inputs : Dispatch(r, k, input)
  \/ \E r \in Reqs : Execute(r)
  \/ \E r \in Reqs : Cancel(r)

Spec == Init /\ [][Next]_vars

NextRegistry ==
  \/ \E a \in Ids, f \in Factories : Register(a, f)
  \/ \E r \in Reqs, a \in Ids, input \in Inputs : Resolve(r, a, input)
  \/ \E r \in Reqs : Execute(r)

RegistrySpec == InitRegistry /\ [][NextRegistry]_vars

\* ------------------------------------------- the card builder on its own
\* Ports a card is built for: the gateway's own and another one.
Ports == {PORT, 8080}

CardLists == UNION { [1..n -> Ids] : n \in 0..MaxCardIds }

InitCards ==
  /\ InitCommon
  /\ AGENT_IDS \in CardLists
  /\ pc = "cards"

\* server.py lines 24-29 for AGENT_IDS[Len(routes) + 1] and any port: the
\* card is built and the sub-application is mounted at "/" + agent_id with
\* its RPC endpoint at "/a2a".
BuildSubapp(port) ==
  /\ pc = "cards"
  /\ Len(routes) < Len(AGENT_IDS)
  /\ LET agent_id == AGENT_IDS[Len(routes) + 1] IN
       routes' = Append(routes,
         [prefix |-> "/" \o agent_id,
          rpc_url |-> "/a2a",
          agent_id |-> agent_id,
          port |-> port,
          card |-> make_agent_card(agent_id, port)])
  /\ UNCHANGED << AGENT_IDS, AGENT_REGISTRY, regLog, pc, bridges, req, sink,
                  running, logs >>

NextCards == \E port \in Ports : BuildSubapp(port)

CardSpec == InitCards /\ [][NextCards]_vars

\* ================================================================ claims
Finished(r) == req[r].pc \in {"done", "raised"}

Failures(q) == { i \in DOMAIN q : q[i].kind = "failure" }

Messages(q) == { i \in DOMAIN q : q[i].kind = "message" }

\* C1: every invocation of execute that has ended left exactly one terminal
\* event in its sink and no exception escaped it: a completion event on
\* success, a failure event on any failure.
C1_OneTerminalEvent ==
  \A r \in Reqs :
    Finished(r) =>
      /\ Len(sink[r]) = 1
      /\ req[r].exc = None

\* C2: for an input that int() rejects, an execute that ended (not on a
\* backend failure) left exactly one InvalidPayload failure event in the sink
\* and made no backend call.
C2_InvalidPayloadEvent ==
  \A r \in Reqs :
    (Finished(r) /\ ~int(req[r].input).ok /\ req[r].exc # "BackendError") =>
      /\ Len(sink[r]) = 1
      /\ sink[r][1].kind = "failure"
      /\ sink[r][1].failure = "InvalidPayload"
      /\ req[r].calls = << >>

\* C3: after cancel was called for a request, its sink holds exactly one
\* failure event, of kind CancellationUnsupported.
C3_CancelUnsupportedEvent ==
  \A r \in Reqs :
    req[r].cancelExc # None =>
      /\ Cardinality(Failures(sink[r])) = 1
      /\ \A i \in Failures(sink[r]) : sink[r][i].failure = "CancellationUnsupported"

\* C4: an execute that completed had an input that int() parses to n, made
\* exactly the backend calls load, call_webhook({"value": n}), get_logs in
\* that order, and left exactly one event in its sink, a text message whose
\* text is the last entry of the log sequence get_logs returned; an input that
\* parses is never rejected with ValueError.
C4_ParsedInvokedLastLog ==
  \A r \in Reqs :
    LET p == int(req[r].input) IN
      /\ req[r].pc = "done" =>
           /\ p.ok
           /\ req[r].calls =
                << BackendCall("load", Add2Agent, << >>),
                   BackendCall("call_webhook", Add2Agent, << p.v >>),
                   BackendCall("get_logs", Add2Agent, << >>) >>
           /\ Len(sink[r]) = 1
           /\ sink[r][1].kind = "message"
           /\ sink[r][1].text = req[r].fetched[Len(req[r].fetched)]
      /\ (req[r].pc = "raised" /\ p.ok) => req[r].exc # "ValueError"

\* C4 witness: the input " -12" completed with payload -12 and a fetched log
\* of more than one entry.
C4_Witness ==
  \E r \in Reqs :
    /\ req[r].pc = "done"
    /\ req[r].input = <<" ", "-", "1", "2">>
    /\ req[r].val = << 0 - 12 >>
    /\ Len(req[r].fetched) >= 2
    /\ Len(sink[r]) = 1

\* C5: a get_executor call leaves the registry unchanged; for an identifier
\* with no entry it raises ValueError and constructs no bridge, for one with an
\* entry it raises nothing and returns a fresh instance of the registered class.
C5_ResolveNotRegistered ==
  [][\A r \in Reqs :
       (req[r].pc = "none" /\ req'[r].pc # "none") =>
         /\ AGENT_REGISTRY' = AGENT_REGISTRY
         /\ IF AGENT_REGISTRY[req'[r].id] = None
            THEN /\ req'[r].pc = "unresolved"
                 /\ req'[r].exc = "ValueError"
                 /\ req'[r].bridge = 0
                 /\ bridges' = bridges
            ELSE /\ req'[r].exc = None
                 /\ req'[r].bridge = Len(bridges) + 1
                 /\ bridges' = Append(bridges,
                      [cls |-> AGENT_REGISTRY[req'[r].id],
                       resolvedAs |-> req'[r].id])]_vars

\* C5 witness: a resolve of an unregistered identifier failed and a resolve of
\* a registered one returned a bridge.
C5_Witness ==
  /\ \E r \in Reqs : req[r].pc = "unresolved" /\ AGENT_REGISTRY[req[r].id] = None
  /\ \E a \in Ids : AGENT_REGISTRY[a] # None

\* C6: every backend call an executing bridge makes is made under the
\* identifier the bridge was resolved for.
C6_BoundToIdentifier ==
  \A r \in Reqs :
    \A i \in DOMAIN req[r].calls :
      req[r].calls[i].agent = bridges[req[r].bridge].resolvedAs

\* C7: no two invocations run on the same bridge instance.
C7_OwnBridgePerInvocation ==
  \A r1, r2 \in Reqs :
    (r1 # r2 /\ req[r1].pc # "none" /\ req[r2].pc # "none") =>
      req[r1].bridge # req[r2].bridge

\* C8: every event in a request's sink carries an output record that the
\* backend produced for that request's own call_webhook.
C8_OwnRecordOnly ==
  \A r \in Reqs :
    \A i \in DOMAIN sink[r] :
      /\ sink[r][i].text.by = r
      /\ sink[r][i].text.value = req[r].val[1]

\* C8 witness: two overlapping invocations on one identifier both completed,
\* the first dispatched one after the other's backend call.
C8_Witness ==
  /\ MaxReqs >= 2
  /\ req[1].pc = "done"
  /\ req[2].pc = "done"
  /\ req[1].id = req[2].id
  /\ \E i \in DOMAIN req[1].fetched : req[1].fetched[i].by = 2
  /\ Len(sink[1]) = 1
  /\ Len(sink[2]) = 1

LastRegistered(a) ==
  LET at == { i \in DOMAIN regLog : regLog[i].id = a } IN
    IF at = {} THEN None
    ELSE regLog[CHOOSE i \in at : \A j \in at : j <= i].cls

\* C9: the registry binds each identifier to the class of the most recent
\* register_agent call for it (none if there was no such call), and a
\* get_executor call builds the bridge from that class.
C9_LastWriteWins ==
  /\ [](\A a \in Ids : AGENT_REGISTRY[a] = LastRegistered(a))
  /\ [][\A r \in Reqs :
          (req[r].pc = "none" /\ req'[r].bridge # 0) =>
            bridges'[req'[r].bridge].cls = LastRegistered(req'[r].id)]_vars

\* C9 witness: an identifier registered twice with different classes, another
\* identifier left without entry, and a bridge then built from the later class.
C9_Witness ==
  /\ Len(regLog) = 2
  /\ regLog[1].id = regLog[2].id
  /\ regLog[1].cls # regLog[2].cls
  /\ \E r \in Reqs :
       /\ req[r].bridge # 0
       /\ req[r].id = regLog[2].id
       /\ bridges[req[r].bridge].cls = regLog[2].cls

\* C10: every mounted route is for the configured identifier of its position,
\* which has a registry entry whose class the route's executor instantiates,
\* and carries the one card of that identifier; the gateway serves (and takes
\* requests) only if every configured identifier has a registry entry.
C10_RoutedHasCardAndFactory ==
  /\ \A k \in DOMAIN routes :
       LET a == routes[k].agent_id IN
         /\ k <= Len(AGENT_IDS)
         /\ a = AGENT_IDS[k]
         /\ AGENT_REGISTRY[a] # None
         /\ bridges[routes[k].executor] =
              [cls |-> AGENT_REGISTRY[a], resolvedAs |-> a]
         /\ routes[k].card.skills[1].id = a
         /\ \A j \in DOMAIN routes :
              routes[j].agent_id = a => routes[j].card = routes[k].card
  /\ pc = "serving" =>
       /\ Len(routes) = Len(AGENT_IDS)
       /\ \A k \in DOMAIN AGENT_IDS : AGENT_REGISTRY[AGENT_IDS[k]] # None
  /\ \A r \in Reqs : req[r].pc # "none" => pc = "serving"

\* C10 witness: startup failed on an unregistered configured identifier after
\* mounting the registered one before it.
C10_Witness ==
  /\ pc = "failed"
  /\ Len(routes) = 1
  /\ AGENT_REGISTRY[AGENT_IDS[2]] = None

\* C11: a register_agent call is made only during startup, before any bridge
\* was resolved and before any request exists; once a bridge was resolved or a
\* request was taken, registration is over and the registry never changes.
C11_RegistryFrozenBeforeRequests ==
  /\ [][(AGENT_REGISTRY' # AGENT_REGISTRY \/ regLog' # regLog) =>
          /\ pc = "register"
          /\ bridges = << >>
          /\ \A r \in Reqs : req[r].pc = "none"]_vars
  /\ []((bridges # << >> \/ \E r \in Reqs : req[r].pc # "none") =>
          /\ pc # "register"
          /\ regLog # << >>)

\* C11 witness: the registry was populated by the one startup call, a bridge
\* was resolved, and a request was executed and another cancelled.
C11_Witness ==
  /\ pc = "serving"
  /\ Len(regLog) = 1
  /\ AGENT_REGISTRY[Add2Agent] = "Add2Executor"
  /\ bridges # << >>
  /\ \E r \in Reqs : req[r].pc = "done"
  /\ \E r \in Reqs : req[r].cancelExc # None

\* C12: while one invocation is blocked in the backend call, every other
\* request waiting to execute can still take its next step (a deadline frees
\* the dispatcher).
C12_BlockedCallDoesNotStall ==
  \A r \in Reqs :
    req[r].pc = "blocked" =>
      \A q \in Reqs \ {r} :
        req[q].pc = "queued" => ENABLED Execute(q)

\* The address the gateway listens on (server.py line 35) for a port.
BaseAddress(port) == "http://127.0.0.1:" \o ToString(port)

\* C13: for every identifier, in the skill table or not, the card's url is
\* the base address, "/", the identifier, "/" and the RPC sub-path "a2a", and
\* it is the base address followed by the mount prefix and the rpc path of the
\* identifier's sub-application.
C13_CardUrlMatchesRoute ==
  \A k \in DOMAIN routes :
    LET m == routes[k] IN
      /\ m.card.url = BaseAddress(m.port) \o "/" \o m.agent_id \o "/" \o "a2a"
      /\ m.card.url = BaseAddress(m.port) \o m.prefix \o m.rpc_url

\* C13 witness: cards were built for the unregistered identifier other-agent
\* and for add2-agent, on two different ports.
C13_Witness ==
  /\ \E k \in DOMAIN routes :
       /\ routes[k].agent_id = "other-agent"
       /\ routes[k].port = PORT
       /\ routes[k].card.url = "http://127.0.0.1:9100/other-agent/a2a"
  /\ \E k \in DOMAIN routes :
       /\ routes[k].agent_id = "add2-agent"
       /\ routes[k].port # PORT

\* C14: a card is built for every identifier; its skill has the table's name
\* and description for add2-agent and "Unknown"/"Unknown" for an identifier
\* missing from the table.
C14_SkillOrPlaceholder ==
  \A k \in DOMAIN routes :
    LET m == routes[k]
        skill == m.card.skills[1]
    IN /\ Len(m.card.skills) = 1
       /\ skill.id = m.agent_id
       /\ IF m.agent_id = "add2-agent"
          THEN /\ skill.name = "Add Two"
               /\ skill.description = "Adds +2 to input"
               /\ m.card.description = "Adds +2 to input"
          ELSE /\ skill.name = "Unknown"
               /\ skill.description = "Unknown"
               /\ m.card.description = "Unknown"

\* C14 witness: every listed identifier got its card, one of them missing
\* from the skill table and one in it.
C14_Witness ==
  /\ Len(routes) = Len(AGENT_IDS)
  /\ \E k \in DOMAIN routes :
       /\ routes[k].agent_id = "other-agent"
       /\ routes[k].card.skills[1].name = "Unknown"
  /\ \E k \in DOMAIN routes :
       /\ routes[k].agent_id = "add2-agent"
       /\ routes[k].card.skills[1].name = "Add Two"

StepOrder ==
  { <<"none", "queued">>, <<"queued", "loaded">>, <<"queued", "raised">>,
    <<"loaded", "parsed">>, <<"loaded", "raised">>,
    <<"parsed", "invoked">>, <<"parsed", "blocked">>, <<"parsed", "raised">>,
    <<"invoked", "fetched">>, <<"invoked", "raised">>,
    <<"fetched", "done">> }

ExpectedCalls(r) ==
  << BackendCall("load", Add2Agent, << >>),
     BackendCall("call_webhook", Add2Agent, req[r].val),
     BackendCall("get_logs", Add2Agent, << >>) >>

\* C16: an invocation moves through load, parse, invoke, fetch, append in that
\* order and never back; its backend calls are a prefix of load, call_webhook,
\* get_logs, each made at most once; call_webhook is made only with the parsed
\* payload; after an exception no further step runs and the sink holds an
\* event only when the invocation completed.
C16_FixedOrderNoRetry ==
  /\ [][\A r \in Reqs :
          req'[r].pc # req[r].pc => << req[r].pc, req'[r].pc >> \in StepOrder]_vars
  /\ [](\A r \in Reqs :
          /\ Len(req[r].calls) <= 3
          /\ req[r].calls = SubSeq(ExpectedCalls(r), 1, Len(req[r].calls))
          /\ Len(req[r].calls) >= 2 =>
               /\ int(req[r].input).ok
               /\ req[r].val = << int(req[r].input).v >>
          /\ Len(req[r].calls) =
               CASE req[r].pc \in {"none", "queued"} -> 0
                 [] req[r].pc \in {"loaded", "parsed"} -> 1
                 [] req[r].pc \in {"invoked", "blocked"} -> 2
                 [] req[r].pc \in {"fetched", "done"} -> 3
                 [] OTHER -> Len(req[r].calls)
          /\ sink[r] # << >> <=> req[r].pc = "done"
          /\ Len(sink[r]) <= 1)

\* C16 witness: one invocation failed in call_webhook and made no get_logs
\* call and enqueued nothing, another failed in the parse before any
\* call_webhook.
C16_Witness ==
  /\ \E r \in Reqs :
       /\ req[r].pc = "raised"
       /\ req[r].exc = "BackendError"
       /\ Len(req[r].calls) = 2
       /\ sink[r] = << >>
  /\ \E r \in Reqs :
       /\ req[r].pc = "raised"
       /\ req[r].exc = "ValueError"
       /\ Len(req[r].calls) = 1

====
